---- MODULE Spec2Model ----
(***************************************************************************)
(* Model of the two APOD exporters of nasa4s:                              *)
(*   src/python/apod_local_exporter.py  (asyncio, semaphore-gated gather)  *)
(*   src/python/apod_exporter_sync.py   (ThreadPoolExecutor, as_completed) *)
(* One behaviour is one run of ApodExporter(...).export(dates).            *)
(* Work items are numbered 0..K-1 as enumerate(dates) numbers them.        *)
(***************************************************************************)
EXTENDS Integers, Sequences, FiniteSets, TLC

(* ---- bounds of the model ---- *)
MaxK == 3          \* longest dates list explored
MaxN == 2          \* largest max_concurrent_downloads explored
MaxFairK == 2      \* longest dates list explored under fairness
MaxLoad == 5       \* largest sum of batch length and limit explored

Variants == {"asyncio", "threads"}
Limits == (0 - 1) .. MaxN

\* Per-item behaviour of the collaborators: the step at which the item fails.
Behaviours == {"ok", "locate", "fetch", "persist_open", "persist_write"}
\* The ways the metadata lookup can fail to give a URL (the request raises,
\* a non-200 status, no 'url' key, a 'url' of ""), and the ways the image
\* request can fail.
LocateFailures == {"exception", "status", "no_url", "empty_url"}
FetchFailures == {"exception", "status"}

VARIABLES
    variant,         \* which exporter runs
    max_concurrent_downloads,
    dates,           \* function 0..K-1 -> date
    beh,             \* function 0..K-1 -> Behaviours
    pc,              \* position of the caller of export
    st,              \* function 0..K-1 -> position of the work item
    result,          \* function 0..K-1 -> what download_apod gave back
    sem_value,       \* asyncio.Semaphore._value
    sem_waiters,     \* asyncio.Semaphore._waiters (FIFO of item indices)
    work_queue,      \* ThreadPoolExecutor._work_queue (FIFO of item indices)
    submitted,       \* number of executor.submit calls made
    finished,        \* as_completed: futures found finished at the snapshot
    waiter_finished, \* as_completed: waiter.finished_futures, completion order
    results,         \* the list export aggregates
    collected,       \* for each entry of results, the item it came from
    ret,             \* value returned by export
    calls,           \* function 0..K-1 -> number of calls per collaborator
    wrote,           \* function 0..K-1 -> names the item opened for writing
    files,           \* set of files in the working directory
    exited,          \* << >>, or <<status>> once the process has exited
    loop_ready       \* asyncio event loop: woken waiters due to run (FIFO)

vars == <<variant, max_concurrent_downloads, dates, beh, pc, st, result,
          sem_value, sem_waiters, work_queue, submitted, finished,
          waiter_finished, results, collected, ret, calls, wrote, files,
          exited, loop_ready>>

K == Cardinality(DOMAIN dates)
Idx == DOMAIN dates

\* The dates list explored for a batch of k keys: the two dates in turn, so
\* that a batch of three or more keys holds a key twice.
DateList(k) ==
    [i \in 0 .. k - 1 |-> IF i % 2 = 0 THEN "2020-03-01" ELSE "2020-03-02"]

(* ---- pure helpers ---- *)

\* Variant of the artifact name that numbers the files as they are written.
output_file_by_completion(index) ==
    <<"apod-export-", Cardinality({j \in DOMAIN st : st[j] = "done"}), ".jpg">>

\* Variant of the artifact name that leaves the index out.
output_file_fixed(index) == <<"apod-export-", 0, ".jpg">>

\* output_file = f"apod-export-{index}.jpg"
output_file(index) == <<"apod-export-", index, ".jpg">>

\* Variants of all: true when some entry is true; false for the empty list.
any_true(s) == \E p \in DOMAIN s : s[p]
all_nonempty(s) == s # << >> /\ \A p \in DOMAIN s : s[p]

\* all(results)
RECURSIVE all(_)
all(s) == IF s = << >> THEN TRUE ELSE Head(s) /\ all(Tail(s))

\* Variant of the handler that lets the exception leave download_apod.
except_reraise == "raised"

\* except Exception as e: ... return False
except_Exception == "False"

\* Work items inside the download_apod worker body.
InBody(i) == st[i] \in {"locate", "fetch", "persist"}
InFlight == {i \in Idx : InBody(i)}

Init ==
    /\ variant \in Variants
    /\ max_concurrent_downloads \in Limits
    /\ \E k \in 0 .. MaxK :
          /\ k + max_concurrent_downloads <= MaxLoad
          /\ dates = DateList(k)
          /\ beh \in [0 .. k - 1 -> Behaviours]
    /\ pc = "init"
    /\ st = [i \in Idx |-> "unscheduled"]
    /\ result = [i \in Idx |-> "none"]
    /\ sem_value = 0
    /\ sem_waiters = << >>
    /\ work_queue = << >>
    /\ submitted = 0
    /\ finished = {}
    /\ waiter_finished = << >>
    /\ results = << >>
    /\ collected = << >>
    /\ ret = FALSE
    /\ calls = [i \in Idx |-> [locate |-> 0, fetch |-> 0, persist |-> 0]]
    /\ wrote = [i \in Idx |-> << >>]
    /\ files = {}
    /\ exited = << >>
    /\ loop_ready = << >>

(* ---- the admission gate and the collectors ---- *)

Range(s) == {s[p] : p \in DOMAIN s}

\* Variant of Busy in which a pool thread is not freed by a finished item.
Busy_never_freed ==
    {i \in Idx : st[i] \in {"admitted", "locate", "fetch", "persist", "done"}}

\* Work items a pool thread holds: taken from the queue and not yet finished.
Busy == {i \in Idx : st[i] \in {"admitted", "locate", "fetch", "persist"}}

\* Variant of locked that never refuses an acquire.
locked_open == FALSE

\* Semaphore.locked(): the value is 0 or a waiter is queued.
locked == sem_value = 0 \/ sem_waiters # << >>

\* Variant of the gate that is acquired and never released.
acquire_without_release(r) == FALSE

\* Variant of the gate that is released only when the body returns True.
releases_on_success(r) == r = "True"

\* async with self.semaphore: __aexit__ releases on every way out of the body.
aexit_releases(r) == TRUE

\* as_completed: the futures not yet found finished.
pending == {i \in Idx : i \notin Range(collected) /\ i \notin finished}

\* Variant of as_completed that does not wait for the pending futures.
as_completed_no_wait ==
    finished = {} /\ waiter_finished = << >>

\* as_completed stops when the finished futures are yielded and none is pending.
as_completed_exhausted ==
    finished = {} /\ waiter_finished = << >> /\ pending = {}

\* Variant of gather that returns the values last argument first.
gather_reversed(res) == [p \in 1 .. K |-> res[K - p] = "True"]

\* results = await asyncio.gather(*tasks): the values in argument order.
gather(res) == [p \in 1 .. K |-> res[p - 1] = "True"]

\* An asyncio task makes a step only when the event loop runs it: first every
\* task created by gather gets its first step, in order, then I/O completes.
Runnable ==
    \/ variant = "threads"
    \/ variant = "asyncio" /\ pc = "gather" /\ \A j \in Idx : st[j] # "created"

(* ---- ApodExporter.__init__ ---- *)

Construct ==
    /\ pc = "init"
    /\ IF variant = "asyncio"
       THEN IF max_concurrent_downloads < 0
            THEN pc' = "raised" /\ UNCHANGED sem_value
            ELSE pc' = "export" /\ sem_value' = max_concurrent_downloads
       ELSE pc' = "export" /\ UNCHANGED sem_value
    /\ UNCHANGED <<variant, max_concurrent_downloads, dates, beh, st, result,
                   sem_waiters, work_queue, submitted, finished,
                   waiter_finished, results, collected, ret, calls, wrote,
                   files, exited, loop_ready>>

(* ---- export: scheduling ---- *)

\* asyncio: tasks = [download_apod(...) for ...]; gather wraps each in a task.
Gather ==
    /\ variant = "asyncio" /\ pc = "export"
    /\ st' = [i \in Idx |-> "created"]
    /\ pc' = "gather"
    /\ UNCHANGED <<variant, max_concurrent_downloads, dates, beh, result,
                   sem_value, sem_waiters, work_queue, submitted, finished,
                   waiter_finished, results, collected, ret, calls, wrote,
                   files, exited, loop_ready>>

\* threads: with ThreadPoolExecutor(max_workers=...) as executor
Executor ==
    /\ variant = "threads" /\ pc = "export"
    /\ pc' = IF max_concurrent_downloads <= 0 THEN "raised" ELSE "submit"
    /\ UNCHANGED <<variant, max_concurrent_downloads, dates, beh, st, result,
                   sem_value, sem_waiters, work_queue, submitted, finished,
                   waiter_finished, results, collected, ret, calls, wrote,
                   files, exited, loop_ready>>

\* threads: executor.submit(self.download_apod, date, index), in input order
Submit ==
    /\ variant = "threads" /\ pc = "submit" /\ submitted < K
    /\ work_queue' = Append(work_queue, submitted)
    /\ st' = [st EXCEPT ![submitted] = "queued"]
    /\ submitted' = submitted + 1
    /\ UNCHANGED <<variant, max_concurrent_downloads, dates, beh, pc, result,
                   sem_value, sem_waiters, finished, waiter_finished, results,
                   collected, ret, calls, wrote, files, exited, loop_ready>>

\* threads: as_completed(future_to_date) takes its snapshot of finished futures
AsCompleted ==
    /\ variant = "threads" /\ pc = "submit" /\ submitted = K
    /\ finished' = {i \in Idx : st[i] = "done"}
    /\ pc' = "collect"
    /\ UNCHANGED <<variant, max_concurrent_downloads, dates, beh, st, result,
                   sem_value, sem_waiters, work_queue, submitted,
                   waiter_finished, results, collected, ret, calls, wrote,
                   files, exited, loop_ready>>

(* ---- admission of a work item ---- *)

\* asyncio: first step of the task: async with self.semaphore (acquire), then
\* the body up to its first await.
TaskStart(i) ==
    /\ variant = "asyncio" /\ pc = "gather"
    /\ st[i] = "created"
    /\ \A j \in Idx : j < i => st[j] # "created"
    /\ IF ~locked
       THEN /\ sem_value' = sem_value - 1
            /\ st' = [st EXCEPT ![i] = "locate"]
            /\ calls' = [calls EXCEPT ![i].locate = @ + 1]
            /\ UNCHANGED sem_waiters
       ELSE /\ sem_waiters' = Append(sem_waiters, i)
            /\ st' = [st EXCEPT ![i] = "waiting"]
            /\ UNCHANGED <<sem_value, calls>>
    /\ UNCHANGED <<variant, max_concurrent_downloads, dates, beh, pc, result,
                   work_queue, submitted, finished, waiter_finished, results,
                   collected, ret, wrote, files, exited, loop_ready>>

\* Variant of Dequeue in which a pool thread takes any queued work item.
Dequeue_any_order(i) ==
    /\ variant = "threads"
    /\ \E p \in DOMAIN work_queue :
          /\ work_queue[p] = i
          /\ work_queue' = SubSeq(work_queue, 1, p - 1)
                               \o SubSeq(work_queue, p + 1, Len(work_queue))
    /\ Cardinality(Busy) < max_concurrent_downloads
    /\ st' = [st EXCEPT ![i] = "admitted"]
    /\ UNCHANGED <<variant, max_concurrent_downloads, dates, beh, pc, result,
                   sem_value, sem_waiters, submitted, finished,
                   waiter_finished, results, collected, ret, calls, wrote,
                   files, exited, loop_ready>>

\* threads: a pool thread takes the next work item; the pool has at most
\* max_workers threads and each runs one item at a time.
Dequeue(i) ==
    /\ variant = "threads"
    /\ work_queue # << >> /\ i = Head(work_queue)
    /\ Cardinality(Busy) < max_concurrent_downloads
    /\ work_queue' = Tail(work_queue)
    /\ st' = [st EXCEPT ![i] = "admitted"]
    /\ UNCHANGED <<variant, max_concurrent_downloads, dates, beh, pc, result,
                   sem_value, sem_waiters, submitted, finished,
                   waiter_finished, results, collected, ret, calls, wrote,
                   files, exited, loop_ready>>

\* The admitted item enters the body of download_apod and issues the metadata
\* request (asyncio: the woken waiter resumes; threads: work_item.run()).
EnterBody(i) ==
    /\ st[i] = "admitted"
    /\ Runnable
    \* the event loop resumes the woken tasks in the order they were woken
    /\ IF variant = "asyncio"
       THEN /\ loop_ready # << >> /\ i = Head(loop_ready)
            /\ loop_ready' = Tail(loop_ready)
       ELSE UNCHANGED loop_ready
    /\ st' = [st EXCEPT ![i] = "locate"]
    /\ calls' = [calls EXCEPT ![i].locate = @ + 1]
    /\ UNCHANGED <<variant, max_concurrent_downloads, dates, beh, pc, result,
                   sem_value, sem_waiters, work_queue, submitted, finished,
                   waiter_finished, results, collected, ret, wrote, files,
                   exited>>

(* ---- download_apod ---- *)

\* The item leaves download_apod with r: the gate is released, the future or
\* task completes. Leaves calls, wrote and files to the caller.
Finish(i, r) ==
    /\ result' = [result EXCEPT ![i] = r]
    /\ IF variant = "asyncio"
       THEN /\ IF ~aexit_releases(r)
               THEN /\ st' = [st EXCEPT ![i] = "done"]
                    /\ UNCHANGED <<sem_value, sem_waiters, loop_ready>>
               ELSE IF sem_waiters # << >>
               THEN \* release(): _value += 1; _wake_up_next(): _value -= 1
                    /\ st' = [st EXCEPT ![i] = "done",
                                        ![Head(sem_waiters)] = "admitted"]
                    /\ sem_waiters' = Tail(sem_waiters)
                    /\ loop_ready' = Append(loop_ready, Head(sem_waiters))
                    /\ UNCHANGED sem_value
               ELSE /\ st' = [st EXCEPT ![i] = "done"]
                    /\ sem_value' = sem_value + 1
                    /\ UNCHANGED <<sem_waiters, loop_ready>>
            \* gather hands the first exception of a task to its awaiter
            /\ pc' = IF r = "raised" THEN "raised" ELSE pc
            /\ UNCHANGED waiter_finished
       ELSE /\ st' = [st EXCEPT ![i] = "done"]
            \* the waiter installed by as_completed records the completion
            /\ waiter_finished' = IF pc = "collect"
                                  THEN Append(waiter_finished, i)
                                  ELSE waiter_finished
            /\ UNCHANGED <<sem_value, sem_waiters, pc, loop_ready>>
    /\ UNCHANGED <<variant, max_concurrent_downloads, dates, beh, work_queue,
                   submitted, finished, results, collected, ret, exited>>

\* Variant in which the thread-pool exporter takes a non-200 reply for good.
FailureResult_status_unchecked(kind) ==
    IF kind = "status" /\ variant = "threads" THEN "True" ELSE "False"

\* Variant in which an exception of a request is not caught in download_apod.
FailureResult_raises(kind) ==
    IF kind = "exception" THEN "raised" ELSE "False"

\* What a failed request becomes. urlopen raises on a non-200 status; the
\* aiohttp variant tests response.status and returns False.
FailureResult(kind) ==
    IF kind = "exception" THEN except_Exception
    ELSE IF kind = "status"
         THEN IF variant = "asyncio" THEN "False" ELSE except_Exception
    ELSE "False"

\* if 'url' not in metadata: return False. A 'url' of "" is in metadata.
passes_url_check(kind) == kind = "empty_url"

\* Variant of Locate that repeats a failed metadata request once.
Locate_with_retry(i) ==
    /\ st[i] = "locate"
    /\ Runnable
    /\ \E kind \in (IF beh[i] = "locate" THEN LocateFailures ELSE {"ok"}) :
          IF kind = "ok" \/ passes_url_check(kind)
          THEN /\ st' = [st EXCEPT ![i] = "fetch"]
               /\ calls' = [calls EXCEPT ![i].fetch = @ + 1]
               /\ UNCHANGED <<variant, max_concurrent_downloads, dates, beh,
                              pc, result, sem_value, sem_waiters, work_queue,
                              submitted, finished, waiter_finished, results,
                              collected, ret, exited, loop_ready>>
          ELSE IF calls[i].locate < 2
          THEN /\ calls' = [calls EXCEPT ![i].locate = @ + 1]
               /\ UNCHANGED <<variant, max_concurrent_downloads, dates, beh,
                              pc, st, result, sem_value, sem_waiters,
                              work_queue, submitted, finished, waiter_finished,
                              results, collected, ret, exited, loop_ready>>
          ELSE /\ Finish(i, FailureResult(kind))
               /\ UNCHANGED calls
    /\ UNCHANGED <<wrote, files>>

\* Fetch metadata, extract the image URL
Locate(i) ==
    /\ st[i] = "locate"
    /\ Runnable
    /\ \E kind \in (IF beh[i] = "locate" THEN LocateFailures ELSE {"ok"}) :
          IF kind = "ok" \/ passes_url_check(kind)
          THEN \* image_url = metadata['url']; the image request is issued
               /\ st' = [st EXCEPT ![i] = "fetch"]
               /\ calls' = [calls EXCEPT ![i].fetch = @ + 1]
               /\ UNCHANGED <<variant, max_concurrent_downloads, dates, beh,
                              pc, result, sem_value, sem_waiters, work_queue,
                              submitted, finished, waiter_finished, results,
                              collected, ret, exited, loop_ready>>
          ELSE /\ Finish(i, FailureResult(kind))
               /\ UNCHANGED calls
    /\ UNCHANGED <<wrote, files>>

\* Download the image. A request for the URL "" raises (invalid URL).
Fetch(i) ==
    /\ st[i] = "fetch"
    /\ Runnable
    /\ IF beh[i] = "locate"
       THEN /\ Finish(i, FailureResult("exception"))
            /\ UNCHANGED calls
       ELSE IF beh[i] = "fetch"
       THEN /\ \E kind \in FetchFailures : Finish(i, FailureResult(kind))
            /\ UNCHANGED calls
       ELSE /\ st' = [st EXCEPT ![i] = "persist"]
            /\ calls' = [calls EXCEPT ![i].persist = @ + 1]
            /\ UNCHANGED <<variant, max_concurrent_downloads, dates, beh, pc,
                           result, sem_value, sem_waiters, work_queue,
                           submitted, finished, waiter_finished, results,
                           collected, ret, exited, loop_ready>>
    /\ UNCHANGED <<wrote, files>>

\* open(output_file, 'wb') creates or truncates the file; f.write fills it.
WriteFile(name, i, content) ==
    {f \in files : f.name # name}
        \cup {[name |-> name, by |-> i, content |-> content]}

\* Export to file
Persist(i) ==
    /\ st[i] = "persist"
    /\ Runnable
    /\ LET name == output_file(i) IN
       IF beh[i] = "persist_open"
       THEN /\ Finish(i, except_Exception)
            /\ UNCHANGED <<wrote, files>>
       ELSE IF beh[i] = "persist_write"
       THEN /\ Finish(i, except_Exception)
            /\ wrote' = [wrote EXCEPT ![i] = Append(@, name)]
            /\ files' = WriteFile(name, i, "partial")
       ELSE /\ Finish(i, "True")
            /\ wrote' = [wrote EXCEPT ![i] = Append(@, name)]
            /\ files' = WriteFile(name, i, "complete")
    /\ UNCHANGED calls

(* ---- export: aggregation ---- *)

\* asyncio: results = await asyncio.gather(*tasks)
GatherDone ==
    /\ variant = "asyncio" /\ pc = "gather"
    /\ \A i \in Idx : st[i] = "done"
    /\ results' = gather(result)
    /\ collected' = [p \in 1 .. K |-> p - 1]
    /\ pc' = "collected"
    /\ UNCHANGED <<variant, max_concurrent_downloads, dates, beh, st, result,
                   sem_value, sem_waiters, work_queue, submitted, finished,
                   waiter_finished, ret, calls, wrote, files, exited,
                   loop_ready>>

\* threads: one iteration of "for future in as_completed(future_to_date)":
\* the futures of the snapshot come in set order, the others as they complete.
YieldFuture(i) ==
    \* result = future.result(); results.append(result), or False on raise
    /\ results' = Append(results, result[i] = "True")
    /\ collected' = Append(collected, i)

Collect ==
    /\ variant = "threads" /\ pc = "collect"
    /\ IF finished # {}
       THEN \E i \in finished :
               /\ YieldFuture(i)
               /\ finished' = finished \ {i}
               /\ UNCHANGED waiter_finished
       ELSE /\ waiter_finished # << >>
            /\ YieldFuture(Head(waiter_finished))
            /\ waiter_finished' = Tail(waiter_finished)
            /\ UNCHANGED finished
    /\ UNCHANGED <<variant, max_concurrent_downloads, dates, beh, pc, st,
                   result, sem_value, sem_waiters, work_queue, submitted, ret,
                   calls, wrote, files, exited, loop_ready>>

\* return all(results)
Return ==
    /\ \/ variant = "asyncio" /\ pc = "collected"
       \/ variant = "threads" /\ pc = "collect" /\ as_completed_exhausted
    /\ ret' = all(results)
    /\ pc' = "returned"
    /\ UNCHANGED <<variant, max_concurrent_downloads, dates, beh, st, result,
                   sem_value, sem_waiters, work_queue, submitted, finished,
                   waiter_finished, results, collected, calls, wrote, files,
                   exited, loop_ready>>

\* Variant of the exit status that reports success whatever the batch did.
sys_exit_zero(success) == 0

\* sys.exit(0 if success else 1)
sys_exit(success) == IF success THEN 0 ELSE 1

\* main: the process exits with the status of sys.exit after export returned;
\* an exception that left export ends the interpreter with status 1.
Exit ==
    /\ pc \in {"returned", "raised"}
    /\ exited' = << IF pc = "returned" THEN sys_exit(ret) ELSE 1 >>
    /\ pc' = "exited"
    /\ UNCHANGED <<variant, max_concurrent_downloads, dates, beh, st, result,
                   sem_value, sem_waiters, work_queue, submitted, finished,
                   waiter_finished, results, collected, ret, calls, wrote,
                   files, loop_ready>>

Next ==
    \/ Construct
    \/ Gather
    \/ Executor
    \/ Submit
    \/ AsCompleted
    \/ \E i \in Idx : TaskStart(i)
    \/ \E i \in Idx : Dequeue(i)
    \/ \E i \in Idx : EnterBody(i)
    \/ \E i \in Idx : Locate(i)
    \/ \E i \in Idx : Fetch(i)
    \/ \E i \in Idx : Persist(i)
    \/ GatherDone
    \/ Collect
    \/ Return
    \/ Exit

\* The event loop and the pool threads keep running whatever can run, and
\* every request and file operation returns or fails (timeout=30).
Fairness == WF_vars(Next)

Spec == Init /\ [][Next]_vars

\* The batches explored under fairness.
FairInit == Init /\ K <= MaxFairK

FairSpec == FairInit /\ [][Next]_vars /\ Fairness

(* ======================= properties ======================= *)

Outcome(i) == result[i] = "True"
Terminal(i) == st[i] = "done" /\ result[i] \in {"True", "False"}
Positions(i) == {p \in DOMAIN collected : collected[p] = i}

\* C1: with a limit N >= 1, at most N work items are inside the body of
\* download_apod at any time, in the asyncio and in the thread-pool variant.
C1_ConcurrencyBound ==
    max_concurrent_downloads >= 1
        => Cardinality(InFlight) <= max_concurrent_downloads

\* The gate is full while another item is held back.
C1_Witness ==
    /\ max_concurrent_downloads >= 1
    /\ Cardinality(InFlight) = max_concurrent_downloads
    /\ \E i \in Idx : st[i] \in {"waiting", "queued"}

\* C2: when export returns, results holds exactly K outcomes: every work item
\* produced an outcome and it was collected exactly once.
C2_Cardinality ==
    pc = "returned" =>
        /\ Len(results) = K
        /\ Len(collected) = K
        /\ \A i \in Idx :
              /\ Terminal(i)
              /\ Cardinality(Positions(i)) = 1
        /\ \A p \in DOMAIN collected : results[p] = Outcome(collected[p])

\* A batch of several keys, some of them failing, has returned.
C2_Witness ==
    /\ pc = "returned"
    /\ K >= 2
    /\ \E i \in Idx : beh[i] # "ok"
    /\ Len(results) = K

\* C3: with N >= 1, when export is over every work item whose collaborators
\* all succeed has run to completion with a Success outcome, whatever the
\* failures of the other items.
C3_Isolation ==
    (max_concurrent_downloads >= 1 /\ pc \in {"returned", "raised"}) =>
        \A j \in Idx : beh[j] = "ok" => (st[j] = "done" /\ result[j] = "True")

\* An item failed and an item admitted after it still succeeded.
C3_Witness ==
    /\ pc = "returned"
    /\ \E i, j \in Idx :
          /\ i < j
          /\ beh[i] # "ok" /\ result[i] = "False"
          /\ beh[j] = "ok" /\ result[j] = "True"

C5_RejectsBadLimit ==
    max_concurrent_downloads <= 0 =>
        /\ \A i \in Idx : st[i] = "unscheduled"
        /\ \A i \in Idx : calls[i] = [locate |-> 0, fetch |-> 0, persist |-> 0]
        /\ pc # "returned"

\* C6: with N >= 1, under fair scheduling and collaborators that return or
\* fail, every work item reaches a terminal outcome and export returns.
C6_Terminates ==
    (max_concurrent_downloads >= 1)
        => <>(pc = "returned" /\ \A i \in Idx : Terminal(i))

\* An item that had to wait for admission is terminal and export returned.
C6_Witness ==
    /\ pc = "returned"
    /\ K > max_concurrent_downloads
    /\ max_concurrent_downloads >= 1
    /\ \A i \in Idx : Terminal(i)

\* C7: the value export returns is true exactly when every work item ended
\* in Success.
C7_AllSucceeded ==
    pc = "returned" => (ret <=> \A i \in Idx : result[i] = "True")

\* A batch with a success and a failure returned false.
C7_Witness ==
    /\ pc = "returned"
    /\ ~ret
    /\ \E i, j \in Idx : result[i] = "True" /\ result[j] = "False"

\* C8: no locate, fetch or persist error leaves download_apod: the failing
\* item returns False, and export raises only before any item is scheduled.
C8_NoPropagation ==
    /\ \A i \in Idx : result[i] # "raised"
    /\ \A i \in Idx : (st[i] = "done" /\ beh[i] # "ok") => result[i] = "False"
    /\ pc = "raised" => \A i \in Idx : st[i] = "unscheduled"

\* Items failed with an exception in the persist step and in an earlier step.
C8_Witness ==
    \E i, j \in Idx :
        /\ beh[i] \in {"persist_open", "persist_write"} /\ result[i] = "False"
        /\ beh[j] \in {"locate", "fetch"} /\ result[j] = "False"

\* C9: a work item that ended in Success made exactly one file write, to
\* apod-export-<its index>.jpg, and no two work items write the same file.
C9_OneFilePerIndex ==
    /\ \A i \in Idx :
          result[i] = "True" => wrote[i] = << <<"apod-export-", i, ".jpg">> >>
    /\ \A i, j \in Idx :
          i # j => Range(wrote[i]) \cap Range(wrote[j]) = {}

\* Two items with the same key both succeeded.
C9_Witness ==
    \E i, j \in Idx :
        /\ i # j /\ dates[i] = dates[j]
        /\ result[i] = "True" /\ result[j] = "True"

\* C10: for an empty dates list (and a limit N >= 1) export terminates,
\* collects no outcome, returns true, and nothing is called or written.
C10_EmptyBatch ==
    /\ [](K = 0 => (calls = << >> /\ wrote = << >> /\ files = {}
                    /\ results = << >>))
    /\ [](K = 0 /\ pc = "returned" => ret)
    /\ (K = 0 /\ max_concurrent_downloads >= 1)
          => <>(pc = "returned" /\ ret /\ results = << >>)

\* The empty batch returned.
C10_Witness ==
    K = 0 /\ pc = "returned" /\ ret /\ results = << >> /\ collected = << >>

\* C11: the process exits with status 0 exactly when export returned true
\* (every work item ended in Success) and with a nonzero status otherwise;
\* with a limit N >= 1 it exits only after every work item is terminal.
C11_ExitStatus ==
    pc = "exited" =>
        /\ Len(exited) = 1
        /\ exited[1] = 0 <=> ret
        /\ exited[1] = 0 =>
              (Len(results) = K /\ \A i \in Idx : result[i] = "True")
        /\ exited[1] # 0 =>
              (max_concurrent_downloads <= 0 \/ \E i \in Idx : result[i] = "False")
        /\ max_concurrent_downloads >= 1 => \A i \in Idx : Terminal(i)

\* The process exited with a nonzero status after a batch with a failure in
\* it, and another process exited with 0 after a batch of successes.
C11_Witness ==
    /\ pc = "exited"
    /\ K >= 2
    /\ \/ exited = <<1>> /\ \E i, j \in Idx : beh[i] = "ok" /\ beh[j] # "ok"
       \/ exited = <<0>> /\ \A i \in Idx : beh[i] = "ok"

\* C12: the steps of a work item run in the order locate, fetch, persist and
\* stop at the first failure: an item whose lookup gives no usable URL
\* (error, url missing or empty) makes no image request and no file write and
\* ends in Failure; an item whose image request fails makes no file write
\* and ends in Failure.
C12_StopsAtFirstFailure ==
    \A i \in Idx :
        /\ calls[i].fetch > 0 => calls[i].locate > 0
        /\ calls[i].persist > 0 => calls[i].fetch > 0
        /\ beh[i] = "locate" =>
              /\ calls[i].fetch = 0 /\ calls[i].persist = 0 /\ wrote[i] = << >>
              /\ st[i] = "done" => result[i] = "False"
        /\ beh[i] = "fetch" =>
              /\ calls[i].persist = 0 /\ wrote[i] = << >>
              /\ st[i] = "done" => result[i] = "False"

\* Work items scheduled and not yet inside the body of download_apod.
Waiting == {i \in Idx : st[i] \in {"created", "waiting", "queued", "admitted"}}

\* C13: with N >= 1, whenever fewer than N work items are inside the body and
\* a work item is waiting, a step that starts a waiting item is enabled; this
\* holds after every completion, by success or by any failure path.
C13_WorkConserving ==
    (max_concurrent_downloads >= 1
        /\ Cardinality(InFlight) < max_concurrent_downloads
        /\ Waiting # {})
      => \E i \in Waiting :
            ENABLED (TaskStart(i) \/ Dequeue(i) \/ EnterBody(i))

\* An item has just failed, the gate has room and another item is waiting.
C13_Witness ==
    /\ max_concurrent_downloads >= 1
    /\ Cardinality(InFlight) < max_concurrent_downloads
    /\ \E i \in Idx : st[i] = "done" /\ result[i] = "False"
    /\ \E j \in Idx : st[j] \in {"waiting", "queued", "admitted"}

\* The semaphore of the asyncio exporter exists and has a positive budget.
GateInUse ==
    /\ variant = "asyncio"
    /\ max_concurrent_downloads >= 1
    /\ pc # "init"

\* Waiters that release() has woken and that have not resumed yet.
Handover == {i \in Idx : st[i] = "admitted"}

\* C14 as claimed: in every state free permits plus the work items in flight
\* equal N, free permits stay within 0..N, and all N are free at return.
C14_PermitsConserved ==
    GateInUse =>
        /\ sem_value + Cardinality(InFlight) = max_concurrent_downloads
        /\ sem_value >= 0 /\ sem_value <= max_concurrent_downloads
        /\ pc = "returned" => sem_value = max_concurrent_downloads

\* C14 amended: free permits plus the work items in flight never exceed N and
\* equal N whenever no woken waiter is between its wake-up and its entry
\* into the body (the permit handed to it is no longer free and it is not yet
\* in flight); free permits stay within 0..N, and all N are free at return.
C14_PermitsConservedAtRest ==
    GateInUse =>
        /\ sem_value + Cardinality(InFlight) <= max_concurrent_downloads
        /\ sem_value + Cardinality(InFlight)
              >= max_concurrent_downloads - Cardinality(Handover)
        /\ Handover = {} =>
              sem_value + Cardinality(InFlight) = max_concurrent_downloads
        /\ sem_value >= 0 /\ sem_value <= max_concurrent_downloads
        /\ pc = "returned" => sem_value = max_concurrent_downloads

\* A batch larger than the budget, with a success and a failure in it, has
\* returned and the whole budget is free.
C14_Witness ==
    /\ GateInUse
    /\ pc = "returned"
    /\ K > max_concurrent_downloads
    /\ sem_value = max_concurrent_downloads
    /\ \E i, j \in Idx : result[i] = "True" /\ result[j] = "False"

\* What the collaborators' behaviour alone makes of item i.
ExpectedResult(i) == IF beh[i] = "ok" THEN "True" ELSE "False"
ExpectedFiles ==
    { [name |-> <<"apod-export-", i, ".jpg">>, by |-> i,
       content |-> IF beh[i] = "ok" THEN "complete" ELSE "partial"] :
         i \in {j \in Idx : beh[j] \in {"ok", "persist_write"}} }

\* C15: for fixed keys and fixed per-item collaborator behaviour the final
\* result does not depend on the interleaving: when export returns, the
\* outcome of every index, the returned value and the files in the working
\* directory are the ones the behaviours determine.
C15_Deterministic ==
    pc = "returned" =>
        /\ \A i \in Idx : result[i] = ExpectedResult(i)
        /\ ret = (\A i \in Idx : beh[i] = "ok")
        /\ files = ExpectedFiles

\* A thread-pool batch returned whose outcomes were collected out of input
\* order, with a failure and a written file in it.
C15_Witness ==
    /\ pc = "returned"
    /\ \E p \in DOMAIN collected : collected[p] # p - 1
    /\ \E i \in Idx : result[i] = "False"
    /\ files # {}

\* What export reports for index i, and what a run leaves to observe.
ReportedOutcome(i) == \E p \in DOMAIN collected : collected[p] = i /\ results[p]
Observation ==
    [outcomes |-> [i \in Idx |-> ReportedOutcome(i)],
     allSucceeded |-> ret,
     written |-> {f.name : f \in files}]

\* The observation a batch must leave; it does not mention the variant.
SharedObservation ==
    [outcomes |-> [i \in Idx |-> beh[i] = "ok"],
     allSucceeded |-> \A i \in Idx : beh[i] = "ok",
     written |-> {output_file(i) :
                    i \in {j \in Idx : beh[j] \in {"ok", "persist_write"}}}]

Entered(i) == st[i] \in {"locate", "fetch", "persist", "done"}
Taken(i) == st[i] \in {"admitted", "locate", "fetch", "persist", "done"}

C18_NoArtifactOnFailure ==
    /\ \A i \in Idx :
          result[i] = "False" =>
              (wrote[i] = << >> /\ \A f \in files : f.by # i)
    /\ pc = "returned" => \A f \in files : result[f.by] = "True"

\* C19: there are no retries: a work item makes at most one metadata request,
\* one image request and one file write, a finished item has made exactly
\* one metadata request, and when export returns every work item has been
\* executed exactly once.
C19_NoRetries ==
    /\ \A i \in Idx :
          /\ calls[i].locate <= 1 /\ calls[i].fetch <= 1 /\ calls[i].persist <= 1
          /\ Len(wrote[i]) <= 1
          /\ st[i] = "done" => calls[i].locate = 1
    /\ pc = "returned" => \A i \in Idx : calls[i].locate = 1

\* A batch returned in which one item failed in its image request, after one
\* metadata request, and another went through all three steps once.
C19_Witness ==
    /\ pc = "returned"
    /\ \E i, j \in Idx :
          /\ beh[i] = "fetch"
          /\ calls[i] = [locate |-> 1, fetch |-> 1, persist |-> 0]
          /\ beh[j] = "ok"
          /\ calls[j] = [locate |-> 1, fetch |-> 1, persist |-> 1]
          /\ Len(wrote[j]) = 1

====
